---- MODULE Spec2Model ----
(***************************************************************************)
(* The Raspberry Pi mini UART driver of os/pi/src/uart.rs as a state       *)
(* machine.  One driver (the single MiniUart handle) runs against the      *)
(* hardware: the receive FIFO behind the IO and LSR registers, the         *)
(* transmit FIFO's space flag and the free-running microsecond timer.      *)
(* Every register access and every timer read of the driver is one step;   *)
(* the hardware and the clock move between any two of them.                *)
(***************************************************************************)
EXTENDS Integers, Sequences, FiniteSets, TLC

(* ------------------------------ bounds --------------------------------- *)
\* longest string / buffer handed to write_str and io::Write::write
MaxLen == 2
\* longest buffer handed to io::Read::read
MaxBuf == 2
\* bytes the receive FIFO holds in the model
RxDepth == 2
\* largest timeout (milliseconds) handed to set_read_timeout
MaxTimeout == 1
\* the timer is observed up to this many milliseconds after boot
MaxClockMs == 1
\* failed polls counted per call of write_byte / read_byte
MaxSpins == 1
\* largest power-on value of AUXENB handed to MiniUart::new
MaxAux == 7
\* longest string / buffer handed to a call after that
MaxAuxLen == 1

(* ------------------------- program constants --------------------------- *)
DataReady == 1
TxAvailable == 32
LcrEightBit == 3
BaudDivisor == 270
CntlRxTx == 3
AuxMiniUart == 1
UsPerMs == 1000
LowByteMod == 256
LF == 10
CR == 13

\* the byte values the model hands to the transmit side: '\n' and 'h'
Bytes == {LF, 104}
\* the words the hardware presents in the IO register: 'i', and 'h' with a
\* bit above the low eight set
RxWords == {105, 360}
\* values of the shared AUXENB register at power-on
AuxInit == {4}
\* every value of the three enable bits AUXENB defines, and the bits above
AuxValues == 0..MaxAux
\* timer values the model observes: around every millisecond boundary
ClockValues == {ms * UsPerMs + d : ms \in 0..MaxClockMs, d \in {0, 1}}
MaxClock == MaxClockMs * UsPerMs + 1

None == <<>>
Some(x) == <<x>>

SeqsUpTo(S, n) == UNION {[1..k -> S] : k \in 0..n}

(* --------------------------- volatile access --------------------------- *)
RECURSIVE BitAnd(_, _)
BitAnd(a, b) ==
  IF a = 0 \/ b = 0 THEN 0
  ELSE (a % 2) * (b % 2) + 2 * BitAnd(a \div 2, b \div 2)

has_mask(v, mask) == BitAnd(v, mask) = mask

or_mask_overwrite(v, mask) == mask

or_mask(v, mask) == v + mask - BitAnd(v, mask)

(* ------------------------- 64-bit timer values -------------------------- *)
\* a u32 or u64 is the sequence of its 16-bit limbs, least significant first
Limb == 2 ^ 16

\* `x as u64` (n = 4 limbs): the limbs above the value's own are zero
Widen(x, n) == x \o [k \in 1..(n - Len(x)) |-> 0]

\* x * k + c at the width of x: what is carried out of the top limb is lost
RECURSIVE MulC(_, _, _)
MulC(x, k, c) ==
  IF x = <<>> THEN <<>>
  ELSE LET p == Head(x) * k + c
       IN <<p % Limb>> \o MulC(Tail(x), k, p \div Limb)

\* x + y + c at the width of x: what is carried out of the top limb is lost
RECURSIVE AddC(_, _, _)
AddC(x, y, c) ==
  IF x = <<>> THEN <<>>
  ELSE LET t == Head(x) + Head(y) + c
       IN <<t % Limb>> \o AddC(Tail(x), Tail(y), t \div Limb)

\* x > y for two values of the same width
RECURSIVE GtW(_, _)
GtW(x, y) ==
  IF x = <<>> THEN FALSE
  ELSE LET n == Len(x)
       IN IF x[n] # y[n] THEN x[n] > y[n]
          ELSE GtW(SubSeq(x, 1, n - 1), SubSeq(y, 1, n - 1))

Product64_narrow(duration) == Widen(MulC(duration, UsPerMs, 0), 4)

\* (duration as u64) * 1000
Product64(duration) == MulC(Widen(duration, 4), UsPerMs, 0)

\* start_time + (duration as u64) * 1000 in u64
Deadline64(start, duration) == AddC(start, Product64(duration), 0)

\* the addition carries out of bit 63: a build with overflow checks panics
\* there, a build without them goes on with the wrapped sum
Overflows64(x, y) == AddC(Widen(x, 5), Widen(y, 5), 0)[5] # 0

\* timeouts (u32): 0, 1, the last whose product with 1000 fits 32 bits, the
\* first whose product does not, and u32::MAX
Durations ==
  {<<0, 0>>, <<1, 0>>, <<35127, 65>>, <<35128, 65>>, <<65535, 65535>>}

\* timer values (u64): 0, 1, 2^32, the last start from which every deadline
\* fits 64 bits, the one after it, and u64::MAX
Starts ==
  {<<0, 0, 0, 0>>, <<1, 0, 0, 0>>, <<0, 0, 1, 0>>, <<999, 0, 64536, 65535>>,
   <<1000, 0, 64536, 65535>>, <<65535, 65535, 65535, 65535>>}

\* later timer values: those, and u32::MAX * 1000 and the value after it
Nows == Starts \cup {<<64536, 65535, 999, 0>>, <<64537, 65535, 999, 0>>}

\* no timeout check has been made
NoCheck ==
  [made |-> FALSE, start_time |-> <<0, 0, 0, 0>>, duration |-> <<0, 0>>,
   now |-> <<0, 0, 0, 0>>, product |-> <<0, 0, 0, 0>>,
   deadline |-> <<0, 0, 0, 0>>, panicked |-> FALSE, expired |-> FALSE]

VARIABLES
  \* hardware
  AUX_ENABLES, registers, gpio, rxFifo, txAvail, clock,
  \* the driver handle and the running call
  timeout, pc, op, ra, milliseconds, byte, s, buf, i, bytes_read, start_time,
  waitRes, ret,
  \* the timeout check of wait_for_byte at the timer's full width
  timer64,
  \* history of the running call
  txLog, rxLog, ioWrites, lsrReads, spins, lastLsr, lastClock, buf0,
  promised, readyWhen

hw == <<AUX_ENABLES, registers, gpio, rxFifo, txAvail, clock>>
locals == <<milliseconds, byte, s, buf, i, bytes_read, start_time, waitRes>>
hist == <<txLog, rxLog, ioWrites, lsrReads, spins, lastLsr, lastClock, buf0,
          promised>>
vars == <<hw, timer64, timeout, pc, op, ra, locals, ret, hist, readyWhen>>

Unit == [k |-> "unit", v |-> 0]
Ok(n) == [k |-> "Ok", v |-> n]
Err == [k |-> "Err", v |-> 0]
TimedOut == [k |-> "TimedOut", v |-> 0]
Bool(b) == [k |-> "bool", v |-> IF b THEN 1 ELSE 0]
ByteVal(b) == [k |-> "byte", v |-> b]

\* the value a read of the line-status register returns
LSR ==
  (IF rxFifo # <<>> THEN DataReady ELSE 0) + (IF txAvail THEN TxAvailable ELSE 0)

(* ------------------------------ Init ----------------------------------- *)
\* everything but the shared AUXENB register, as MiniUart::new finds it
InitUart ==
  /\ timer64 = NoCheck
  /\ registers = [LCR |-> 0, BAUD |-> 0, CNTL |-> 0]
  /\ gpio = [p \in {14, 15} |-> "Input"]
  /\ rxFifo = <<>>
  /\ txAvail = TRUE
  /\ clock = 0
  /\ timeout = None
  /\ pc = "new_aux"
  /\ op = "new"
  /\ ra = "done"
  /\ milliseconds = 0
  /\ byte = 0 /\ s = <<>> /\ buf = <<>> /\ i = 1 /\ bytes_read = 0
  /\ start_time = 0 /\ waitRes = "none"
  /\ ret = Unit
  /\ txLog = <<>> /\ rxLog = <<>> /\ ioWrites = 0 /\ lsrReads = 0 /\ spins = 0
  /\ lastLsr = 0 /\ lastClock = 0 /\ buf0 = <<>>
  /\ promised = "none"
  /\ readyWhen = "never"

Init == AUX_ENABLES \in AuxInit /\ InitUart

(* --------------------------- MiniUart::new ----------------------------- *)
\* everything of the running call and its history
callState == <<timeout, op, ra, locals, ret, hist, readyWhen>>

NewOrder_cntl_early ==
  <<"new_aux", "new_cntl", "new_lcr", "new_baud", "new_gpio14", "new_gpio15">>

\* the statements of MiniUart::new in program order
NewOrder ==
  <<"new_aux", "new_lcr", "new_baud", "new_gpio14", "new_gpio15", "new_cntl">>

\* the statement after p; after the last one the handle is returned
NewNext(p) ==
  LET k == CHOOSE j \in 1..Len(NewOrder) : NewOrder[j] = p
  IN IF k = Len(NewOrder) THEN "done" ELSE NewOrder[k + 1]

NewAux ==
  /\ pc = "new_aux"
  /\ AUX_ENABLES' = or_mask(AUX_ENABLES, AuxMiniUart)
  /\ pc' = NewNext("new_aux")
  /\ UNCHANGED <<timer64, registers, gpio, rxFifo, txAvail, clock, callState>>

NewLcr ==
  /\ pc = "new_lcr"
  /\ registers' = [registers EXCEPT !.LCR = LcrEightBit]
  /\ pc' = NewNext("new_lcr")
  /\ UNCHANGED <<timer64, AUX_ENABLES, gpio, rxFifo, txAvail, clock,
                 callState>>

NewBaud ==
  /\ pc = "new_baud"
  /\ registers' = [registers EXCEPT !.BAUD = BaudDivisor]
  /\ pc' = NewNext("new_baud")
  /\ UNCHANGED <<timer64, AUX_ENABLES, gpio, rxFifo, txAvail, clock,
                 callState>>

NewGpio14 ==
  /\ pc = "new_gpio14"
  /\ gpio' = [gpio EXCEPT ![14] = "Alt5"]
  /\ pc' = NewNext("new_gpio14")
  /\ UNCHANGED <<timer64, AUX_ENABLES, registers, rxFifo, txAvail, clock,
                 callState>>

NewGpio15 ==
  /\ pc = "new_gpio15"
  /\ gpio' = [gpio EXCEPT ![15] = "Alt5"]
  /\ pc' = NewNext("new_gpio15")
  /\ UNCHANGED <<timer64, AUX_ENABLES, registers, rxFifo, txAvail, clock,
                 callState>>

NewCntl ==
  /\ pc = "new_cntl"
  /\ registers' = [registers EXCEPT !.CNTL = CntlRxTx]
  /\ timeout' = None
  /\ pc' = NewNext("new_cntl")
  /\ ret' = Unit
  /\ UNCHANGED <<timer64, AUX_ENABLES, gpio, rxFifo, txAvail, clock, op, ra,
                 locals, hist, readyWhen>>

(* ---------------------- starting a call: helpers ----------------------- *)
SetLocals(b, str, bf, st) ==
  /\ milliseconds' = 0
  /\ byte' = b /\ s' = str /\ buf' = bf /\ i' = 1 /\ bytes_read' = 0
  /\ start_time' = st /\ waitRes' = "none"

SetHist(n, l, c, b0, pr) ==
  /\ txLog' = <<>> /\ rxLog' = <<>> /\ ioWrites' = 0 /\ lsrReads' = n
  /\ spins' = 0 /\ lastLsr' = l /\ lastClock' = c /\ buf0' = b0
  /\ promised' = pr

NoHist == SetHist(0, 0, 0, <<>>, "none")
NoLocals == SetLocals(0, <<>>, <<>>, 0)

Deadline_no_scale(start, duration) == start + duration

\* start_time + duration * 1000, the deadline of wait_for_byte
Deadline(start, duration) == start + duration * UsPerMs

\* the deadline of a wait starting now lies within the observed clock range
InHorizon ==
  IF timeout = None THEN TRUE ELSE Deadline(clock, timeout[1]) < MaxClock

\* no call is in progress: the last one has returned
Idle == pc \in {"done", "idle"}

\* the handle is free for the next call
Free == pc = "idle"

\* pc = "done" is the state a call returns in, with the call's frame and
\* history as the call left them; the first step after the return, of the
\* caller or of the hardware, leaves only the call's name and result behind
Settle ==
  IF pc = "done"
  THEN pc' = "idle" /\ NoLocals /\ NoHist
  ELSE UNCHANGED <<pc, locals, hist>>

\* the caller takes the result; the handle is free again
Return ==
  /\ pc = "done"
  /\ Settle
  /\ readyWhen' = "never"
  /\ UNCHANGED <<hw, timer64, timeout, op, ra, ret>>

(* ----------------------------- hardware -------------------------------- *)
\* where, against the running wait's deadline, the data-ready flag came up
Classify ==
  IF ~Idle /\ op \in {"wait_for_byte", "read"} /\ timeout # None
  THEN IF clock < Deadline(start_time, timeout[1]) THEN "before"
       ELSE IF clock = Deadline(start_time, timeout[1]) THEN "at" ELSE "after"
  ELSE "never"

\* a word arrives on the line while the receiver is enabled
HwRxArrive(w) ==
  /\ has_mask(registers.CNTL, 1)
  /\ Len(rxFifo) < RxDepth
  /\ rxFifo' = Append(rxFifo, w)
  /\ readyWhen' = IF rxFifo = <<>> THEN Classify ELSE readyWhen
  /\ Settle
  /\ UNCHANGED <<timer64, AUX_ENABLES, registers, gpio, txAvail, clock,
                 timeout, op, ra, ret>>

\* the transmitter shifts a byte out and the transmit FIFO has space again
HwTxDrain ==
  /\ has_mask(registers.CNTL, 2)
  /\ ~txAvail
  /\ txAvail' = TRUE
  /\ Settle
  /\ UNCHANGED <<timer64, AUX_ENABLES, registers, gpio, rxFifo, clock, timeout,
                 op, ra, ret, readyWhen>>

\* timer::current_time() only grows
Tick ==
  /\ \E c \in ClockValues : c > clock /\ clock' = c
  /\ Settle
  /\ UNCHANGED <<timer64, AUX_ENABLES, registers, gpio, rxFifo, txAvail,
                 timeout, op, ra, ret, readyWhen>>

(* ------------------------- set_read_timeout ---------------------------- *)
\* a call's frame with all locals at their defaults but the argument ms
SetArg(ms) ==
  /\ milliseconds' = ms
  /\ byte' = 0 /\ s' = <<>> /\ buf' = <<>> /\ i' = 1 /\ bytes_read' = 0
  /\ start_time' = 0 /\ waitRes' = "none"

set_read_timeout_once(ms) ==
  /\ Free
  /\ timeout' = IF timeout = None THEN Some(ms) ELSE timeout
  /\ op' = "set_read_timeout"
  /\ ret' = Unit
  /\ readyWhen' = "never"
  /\ pc' = "done"
  /\ SetArg(ms) /\ NoHist
  /\ UNCHANGED <<hw, timer64, ra>>

\* self.timeout = Some(milliseconds)
set_read_timeout(ms) ==
  /\ Free
  /\ timeout' = Some(ms)
  /\ op' = "set_read_timeout"
  /\ ret' = Unit
  /\ readyWhen' = "never"
  /\ pc' = "done"
  /\ SetArg(ms) /\ NoHist
  /\ UNCHANGED <<hw, timer64, ra>>

(* ----------------------------- write_byte ------------------------------ *)
TxFull_wrong_flag(lsr) == ~has_mask(lsr, DataReady)

TxFull_always(lsr) == TRUE

\* the loop condition of write_byte: no space in the transmit FIFO
TxFull(lsr) == ~has_mask(lsr, TxAvailable)

\* entering write_byte(b); it returns to label back
EnterWriteByte(b, back) ==
  /\ byte' = b
  /\ pc' = "wb_poll"
  /\ ra' = back
  /\ ioWrites' = 0 /\ lsrReads' = 0 /\ spins' = 0 /\ lastLsr' = 0

CallWriteByte(b) ==
  /\ Free
  /\ op' = "write_byte"
  /\ pc' = "wb_poll"
  /\ ra' = "done"
  /\ ret' = Unit
  /\ readyWhen' = "never"
  /\ SetLocals(b, <<>>, <<>>, 0) /\ NoHist
  /\ UNCHANGED <<hw, timer64, timeout>>

\* one evaluation of `while !LSR.has_mask(TxAvailable)`
WbPoll ==
  /\ pc = "wb_poll"
  /\ TxFull(LSR) => spins < MaxSpins
  /\ lastLsr' = LSR
  /\ lsrReads' = lsrReads + 1
  /\ IF TxFull(LSR)
     THEN spins' = spins + 1 /\ pc' = "wb_poll"
     ELSE spins' = spins /\ pc' = "wb_write"
  /\ UNCHANGED <<hw, timer64, timeout, op, ra, locals, ret, txLog, rxLog,
                 ioWrites, lastClock, buf0, promised, readyWhen>>

\* registers.IO.write(byte as u32); the FIFO may or may not be full after it
WbWrite ==
  /\ pc = "wb_write"
  /\ txLog' = Append(txLog, byte)
  /\ ioWrites' = ioWrites + 1
  /\ txAvail' \in BOOLEAN
  /\ pc' = ra
  /\ ret' = IF ra = "done" THEN Unit ELSE ret
  /\ UNCHANGED <<timer64, AUX_ENABLES, registers, gpio, rxFifo, clock, timeout,
                 op, ra, locals, rxLog, lsrReads, spins, lastLsr, lastClock,
                 buf0, promised, readyWhen>>

(* ------------------------------ has_byte ------------------------------- *)
has_byte_any_flag(lsr) == lsr # 0

\* LSR.has_mask(DataReady) on the value read from line-status
has_byte(lsr) == has_mask(lsr, DataReady)

CallHasByte ==
  /\ Free
  /\ op' = "has_byte"
  /\ ret' = Bool(has_byte(LSR))
  /\ readyWhen' = "never"
  /\ pc' = "done"
  /\ NoLocals /\ SetHist(1, LSR, 0, <<>>, "none")
  /\ UNCHANGED <<hw, timer64, timeout, ra>>

(* ---------------------------- wait_for_byte ---------------------------- *)
Expired_ge(to, now, start) ==
  to # None /\ now >= Deadline(start, to[1])

Expired_default0(to, now, start) ==
  now > Deadline(start, IF to = None THEN 0 ELSE to[1])

Expired_stale(to, now, start) ==
  to # None /\ start > Deadline(start, to[1])

\* if let Some(duration) = timeout { now > start_time + duration * 1000 }
Expired(to, now, start) ==
  to # None /\ now > Deadline(start, to[1])

WfbSpin_inverted(lsr) == has_byte(lsr)

\* the loop condition of wait_for_byte
WfbSpin(lsr) == ~has_byte(lsr)

\* the flag is already up when the wait starts
ReadyAtEntry == IF rxFifo # <<>> THEN "entry" ELSE "never"

\* let start_time = timer::current_time(), then the loop
CallWaitForByte ==
  /\ Free
  /\ InHorizon
  /\ op' = "wait_for_byte"
  /\ pc' = "wfb_poll"
  /\ ra' = "done"
  /\ ret' = Unit
  /\ readyWhen' = ReadyAtEntry
  /\ SetLocals(0, <<>>, <<>>, clock) /\ SetHist(0, 0, clock, <<>>, "none")
  /\ UNCHANGED <<hw, timer64, timeout>>

\* one evaluation of `while !self.has_byte()`; Ok(()) when it is false
WfbPoll ==
  /\ pc = "wfb_poll"
  /\ lastLsr' = LSR
  /\ IF WfbSpin(LSR)
     THEN pc' = "wfb_check" /\ UNCHANGED <<waitRes, ret>>
     ELSE /\ pc' = ra
          /\ waitRes' = "Ok"
          /\ ret' = IF ra = "done" THEN Ok(0) ELSE ret
  /\ UNCHANGED <<hw, timer64, timeout, op, ra, byte, s, buf, i, bytes_read,
                 start_time, milliseconds, txLog, rxLog, ioWrites, lsrReads,
                 spins, lastClock, buf0, promised, readyWhen>>

\* the loop body: the timer is read only when a timeout is set
WfbCheck ==
  /\ pc = "wfb_check"
  /\ lastClock' = IF timeout = None THEN lastClock ELSE clock
  /\ IF Expired(timeout, clock, start_time)
     THEN /\ pc' = ra
          /\ waitRes' = "Err"
          /\ ret' = IF ra = "done" THEN Err ELSE ret
     ELSE pc' = "wfb_poll" /\ UNCHANGED <<waitRes, ret>>
  /\ UNCHANGED <<hw, timer64, timeout, op, ra, byte, s, buf, i, bytes_read,
                 start_time, milliseconds, txLog, rxLog, ioWrites, lsrReads,
                 spins, lastLsr, buf0, promised, readyWhen>>

\* timer::current_time() > start_time + (duration as u64) * 1000, on the
\* timer's 64 bits: start_time was read when the wait began, now is the
\* timer's value at this check
TimeoutCheck(start, duration, now) ==
  /\ ~GtW(start, now)
  /\ \E p \in (IF Overflows64(start, Product64(duration))
               THEN BOOLEAN ELSE {FALSE}) :
       timer64' =
         [made |-> TRUE, start_time |-> start, duration |-> duration,
          now |-> now, product |-> Product64(duration),
          deadline |-> Deadline64(start, duration),
          panicked |-> p,
          expired |-> ~p /\ GtW(now, Deadline64(start, duration))]
  /\ UNCHANGED <<hw, timeout, pc, op, ra, locals, ret, hist, readyWhen>>

(* ------------------------------ read_byte ------------------------------ *)
RbSpin_inverted(lsr) == has_byte(lsr)

\* the loop condition of read_byte
RbSpin(lsr) == ~has_byte(lsr)

LowByte_unmasked(v) == v

\* (IO.read() & 0xFF) as u8
LowByte(v) == v % LowByteMod

Store_first_slot(b, n, x) == [b EXCEPT ![1] = x]

\* buf[bytes_read] = x, with the slice indexed from 1
Store(b, n, x) == [b EXCEPT ![n + 1] = x]

\* what the previous, completed call promised about the next read_byte
Promise ==
  IF op = "has_byte" /\ ret = Bool(TRUE) THEN "has_byte"
  ELSE IF op = "wait_for_byte" /\ ret = Ok(0) THEN "wait_for_byte"
  ELSE "none"

EnterReadByte(back) ==
  /\ pc' = "rb_poll"
  /\ ra' = back
  /\ lsrReads' = 0 /\ spins' = 0

CallReadByte ==
  /\ Free
  /\ op' = "read_byte"
  /\ pc' = "rb_poll"
  /\ ra' = "done"
  /\ ret' = Unit
  /\ readyWhen' = "never"
  /\ NoLocals /\ SetHist(0, 0, 0, <<>>, Promise)
  /\ UNCHANGED <<hw, timer64, timeout>>

\* one evaluation of `while !self.has_byte()`
RbPoll ==
  /\ pc = "rb_poll"
  /\ RbSpin(LSR) => spins < MaxSpins
  /\ lastLsr' = LSR
  /\ lsrReads' = lsrReads + 1
  /\ IF RbSpin(LSR)
     THEN spins' = spins + 1 /\ pc' = "rb_poll"
     ELSE spins' = spins /\ pc' = "rb_read"
  /\ UNCHANGED <<hw, timer64, timeout, op, ra, locals, ret, txLog, rxLog,
                 ioWrites, lastClock, buf0, promised, readyWhen>>

\* the word a read of the IO register returns; the read takes it off the FIFO
IoWord == IF rxFifo = <<>> THEN 0 ELSE Head(rxFifo)

\* registers.IO.read() & 0xFF, handed to the caller; inside io::Read::read
\* the caller stores it at buf[bytes_read] and counts it
RbRead ==
  /\ pc = "rb_read"
  /\ rxFifo' = IF rxFifo = <<>> THEN rxFifo ELSE Tail(rxFifo)
  /\ readyWhen' = IF Len(rxFifo) <= 1 THEN "never" ELSE readyWhen
  /\ rxLog' = Append(rxLog, IoWord)
  /\ pc' = ra
  /\ IF ra = "done"
     THEN ret' = ByteVal(LowByte(IoWord)) /\ UNCHANGED <<buf, bytes_read>>
     ELSE /\ buf' = Store(buf, bytes_read, LowByte(IoWord))
          /\ bytes_read' = bytes_read + 1
          /\ ret' = ret
  /\ UNCHANGED <<timer64, AUX_ENABLES, registers, gpio, txAvail, clock,
                 timeout, op, ra, byte, s, i, start_time, milliseconds,
                 waitRes, txLog, ioWrites, lsrReads, spins, lastLsr, lastClock,
                 buf0, promised>>

(* -------------------------- fmt::Write::write_str ---------------------- *)
NeedsCr_never(b) == FALSE

\* if byte == b'\n'
NeedsCr(b) == b = LF

write_str(str) ==
  /\ Free
  /\ op' = "write_str"
  /\ pc' = "ws_loop"
  /\ ra' = "done"
  /\ ret' = Unit
  /\ readyWhen' = "never"
  /\ SetLocals(0, str, <<>>, 0) /\ NoHist
  /\ UNCHANGED <<hw, timer64, timeout>>

\* the head of `for &byte in bytes`: done, or the first write_byte of this
\* byte (the '\r' before a '\n', else the byte itself)
WsLoop ==
  /\ pc = "ws_loop"
  /\ IF i > Len(s)
     THEN /\ pc' = "done"
          /\ ret' = Ok(0)
          /\ UNCHANGED <<ra, byte, i, ioWrites, lsrReads, spins, lastLsr>>
     ELSE IF NeedsCr(s[i])
     THEN EnterWriteByte(CR, "ws_byte") /\ UNCHANGED <<i, ret>>
     ELSE EnterWriteByte(s[i], "ws_loop") /\ i' = i + 1 /\ ret' = ret
  /\ UNCHANGED <<hw, timer64, timeout, op, s, buf, bytes_read, start_time,
                 milliseconds, waitRes,
                 txLog, rxLog, lastClock, buf0, promised, readyWhen>>

\* self.write_byte(byte) after the '\r' was written
WsByte ==
  /\ pc = "ws_byte"
  /\ EnterWriteByte(s[i], "ws_loop")
  /\ i' = i + 1
  /\ UNCHANGED <<hw, timer64, timeout, op, s, buf, bytes_read, start_time,
                 milliseconds, waitRes, ret,
                 txLog, rxLog, lastClock, buf0, promised, readyWhen>>

(* ----------------------------- io::Read::read -------------------------- *)
WaitFailed_ignored(res) == FALSE

\* self.wait_for_byte().is_err()
WaitFailed(res) == res = "Err"

DrainMore_past_end(lsr, n, len) == has_byte(lsr) /\ n <= len

DrainMore_no_poll(lsr, n, len) == n < len

\* self.has_byte() && bytes_read < buf.len()
DrainMore(lsr, n, len) == has_byte(lsr) /\ n < len

\* the buffers handed to read: every slot holds a value no byte received has
ReadBufs == {[k \in 1..n |-> 200 + k] : n \in 0..MaxBuf}

\* read(buf) starts with self.wait_for_byte(), which reads the timer
read(bf) ==
  /\ Free
  /\ InHorizon
  /\ op' = "read"
  /\ pc' = "wfb_poll"
  /\ ra' = "r_waited"
  /\ ret' = Unit
  /\ readyWhen' = ReadyAtEntry
  /\ SetLocals(0, <<>>, bf, clock) /\ SetHist(0, 0, clock, bf, "none")
  /\ UNCHANGED <<hw, timer64, timeout>>

\* if self.wait_for_byte().is_err() { Err(TimedOut) } else { bytes_read = 0 }
ReadWaited ==
  /\ pc = "r_waited"
  /\ IF WaitFailed(waitRes)
     THEN pc' = "done" /\ ret' = TimedOut
     ELSE pc' = "r_loop" /\ ret' = ret
  /\ bytes_read' = 0
  /\ UNCHANGED <<hw, timer64, timeout, op, ra, byte, s, buf, i, start_time,
                 milliseconds, waitRes,
                 hist, readyWhen>>

\* one evaluation of `while self.has_byte() && bytes_read < buf.len()`
ReadLoop ==
  /\ pc = "r_loop"
  /\ lastLsr' = LSR
  /\ IF DrainMore(LSR, bytes_read, Len(buf))
     THEN EnterReadByte("r_loop") /\ ret' = ret
     ELSE /\ pc' = "done"
          /\ ret' = Ok(bytes_read)
          /\ UNCHANGED <<ra, lsrReads, spins>>
  /\ UNCHANGED <<hw, timer64, timeout, op, locals, txLog, rxLog, ioWrites,
                 lastClock, buf0, promised, readyWhen>>

(* ---------------------------- io::Write::write ------------------------- *)
write(bf) ==
  /\ Free
  /\ op' = "write"
  /\ pc' = "w_loop"
  /\ ra' = "done"
  /\ ret' = Unit
  /\ readyWhen' = "never"
  /\ SetLocals(0, <<>>, bf, 0) /\ NoHist
  /\ UNCHANGED <<hw, timer64, timeout>>

ForDone_early(k, bf) == k >= Len(bf)

\* `for &byte in buf` has gone through the whole slice (indexed from 1)
ForDone(k, bf) == k > Len(bf)

\* the head of `for &byte in buf`: Ok(buf.len()) or the next write_byte
WLoop ==
  /\ pc = "w_loop"
  /\ IF ForDone(i, buf)
     THEN /\ pc' = "done"
          /\ ret' = Ok(Len(buf))
          /\ UNCHANGED <<ra, byte, i, ioWrites, lsrReads, spins, lastLsr>>
     ELSE EnterWriteByte(buf[i], "w_loop") /\ i' = i + 1 /\ ret' = ret
  /\ UNCHANGED <<hw, timer64, timeout, op, s, buf, bytes_read, start_time,
                 milliseconds, waitRes,
                 txLog, rxLog, lastClock, buf0, promised, readyWhen>>

flush ==
  /\ Free
  /\ op' = "flush"
  /\ ret' = Ok(0)
  /\ readyWhen' = "never"
  /\ pc' = "done"
  /\ NoLocals /\ NoHist
  /\ UNCHANGED <<hw, timer64, timeout, ra>>

(* --------------------------- the whole system -------------------------- *)
\* the steps of a call in progress on the receive side, with construction
\* and the return to the caller
Construct ==
  NewAux \/ NewLcr \/ NewBaud \/ NewGpio14 \/ NewGpio15 \/ NewCntl

DriverRx ==
  \/ Construct
  \/ WfbPoll \/ WfbCheck
  \/ RbPoll \/ RbRead
  \/ ReadWaited \/ ReadLoop
  \/ Return

\* the steps of a call in progress on the transmit side
DriverTx ==
  \/ WbPoll \/ WbWrite
  \/ WsLoop \/ WsByte
  \/ WLoop

\* the calls the kernel makes on the handle
CallsRx ==
  \/ \E m \in 0..MaxTimeout : set_read_timeout(m)
  \/ CallHasByte
  \/ CallWaitForByte
  \/ CallReadByte
  \/ \E bf \in ReadBufs : read(bf)

CallsTx ==
  \/ \E b \in Bytes : CallWriteByte(b)
  \/ \E str \in SeqsUpTo(Bytes, MaxLen) : write_str(str)
  \/ \E bf \in SeqsUpTo(Bytes, MaxLen) : write(bf)
  \/ flush

HardwareRx ==
  \/ \E w \in RxWords : HwRxArrive(w)
  \/ Tick

Next == DriverRx \/ DriverTx \/ CallsRx \/ CallsTx \/ HardwareRx \/ HwTxDrain

Spec == Init /\ [][Next]_vars

\* the receive side alone: the kernel makes no transmit call
NextRx == DriverRx \/ CallsRx \/ HardwareRx

\* the CPU keeps executing the call in progress and the timer keeps counting
LiveSpec == Init /\ [][NextRx]_vars /\ WF_vars(DriverRx) /\ WF_vars(Tick)

\* the transmit side alone: the kernel makes only transmit calls
CpuTx == Construct \/ DriverTx \/ Return

NextTx == CpuTx \/ CallsTx \/ HwTxDrain

\* the CPU keeps executing the call in progress and the transmitter keeps
\* shifting bytes out of a full FIFO
TxSpec == Init /\ [][NextTx]_vars /\ WF_vars(CpuTx) /\ WF_vars(HwTxDrain)

\* the timeout check alone, on 64-bit start times, timeouts and timer values
NextTimer ==
  \E start \in Starts, duration \in Durations, now \in Nows :
    TimeoutCheck(start, duration, now)

TimerSpec == Init /\ [][NextTimer]_vars

\* MiniUart::new run from every power-on value of AUXENB, then the calls
InitAux == AUX_ENABLES \in AuxValues /\ InitUart

\* every operation of the handle, on the shortest inputs that run each of
\* its steps
CallsAux ==
  \/ \E ms \in 0..MaxTimeout : set_read_timeout(ms)
  \/ CallHasByte
  \/ CallWaitForByte
  \/ CallReadByte
  \/ \E bf \in {b \in ReadBufs : Len(b) <= MaxAuxLen} : read(bf)
  \/ CallWriteByte(LF)
  \/ \E str \in SeqsUpTo({LF}, MaxAuxLen) : write_str(str)
  \/ \E bf \in SeqsUpTo({LF}, MaxAuxLen) : write(bf)
  \/ flush

NextAux == DriverRx \/ DriverTx \/ CallsAux \/ HardwareRx \/ HwTxDrain

AuxSpec == InitAux /\ [][NextAux]_vars

(* ======================================================================= *)
(* Properties                                                              *)
(* ======================================================================= *)
\* bit 0 (data ready) and bit 5 (transmit space available) of a line-status
\* value, read off the number itself
Bit0(v) == v % 2 = 1
Bit5(v) == (v \div 32) % 2 = 1

IsPrefix(a, b) == Len(a) <= Len(b) /\ \A k \in 1..Len(a) : a[k] = b[k]

\* a string with a carriage return put before every line feed
RECURSIVE CrLf(_)
CrLf(str) ==
  IF str = <<>> THEN <<>>
  ELSE (IF Head(str) = 10 THEN <<13, 10>> ELSE <<Head(str)>>) \o CrLf(Tail(str))

\* C1: the bytes write_str(s) hands to write_byte, and so writes to the IO
\* register, are s with a carriage return (13) put immediately before every
\* line feed (10), everything else unchanged and in order: while the call
\* runs the bytes written so far are a prefix of that sequence, when it
\* returns they are all of it, and the result is Ok.
C1_WriteStrInsertsCr ==
  op = "write_str" =>
    /\ IsPrefix(txLog, CrLf(s))
    /\ pc = "done" => (txLog = CrLf(s) /\ ret = Ok(0))

\* write_str("h\n") has returned having sent 'h', '\r', '\n'
C1_Witness ==
  /\ op = "write_str" /\ pc = "done"
  /\ s = <<104, 10>>
  /\ txLog = <<104, 13, 10>>

\* C2: write_byte(b) writes the IO register exactly once per call, and only
\* after a line-status read of that call showed bit 5 set: every poll that
\* kept the loop going read the bit clear, the write follows the first poll
\* that read it set (k clear polls, then k + 1 reads in all), and the value
\* written is b.
C2_WriteAfterSpace ==
  /\ ioWrites <= 1
  /\ pc = "wb_poll" =>
       /\ ioWrites = 0
       /\ lsrReads = spins
       /\ lsrReads > 0 => ~Bit5(lastLsr)
  /\ pc = "wb_write" =>
       /\ ioWrites = 0
       /\ lsrReads = spins + 1
       /\ Bit5(lastLsr)
  /\ ioWrites = 1 =>
       /\ lsrReads = spins + 1
       /\ Bit5(lastLsr)
       /\ txLog # <<>> /\ txLog[Len(txLog)] = byte
  /\ (op = "write_byte" /\ pc = "done") => (ioWrites = 1 /\ txLog = <<byte>>)

\* a write_byte that found the FIFO full once: two polls, then the write
C2_Witness ==
  /\ op = "write_byte" /\ pc = "done"
  /\ spins = 1 /\ lsrReads = 2 /\ ioWrites = 1

\* C3: when has_byte() returned true and read_byte() is the next call on the
\* handle, read_byte executes no iteration of its spin loop: a byte is ready
\* when it polls, its one poll reads data-ready set, and it reads the IO
\* register right away.
C3_HasByteThenReadByte ==
  (op = "read_byte" /\ promised = "has_byte") =>
    /\ spins = 0
    /\ pc = "rb_poll" => rxFifo # <<>>
    /\ pc = "rb_read" => (lsrReads = 1 /\ Bit0(lastLsr))
    /\ pc = "done" => (lsrReads = 1 /\ Len(rxLog) = 1)

\* read_byte has returned a byte after has_byte had returned true
C3_Witness ==
  /\ op = "read_byte" /\ promised = "has_byte" /\ pc = "done"
  /\ ret = ByteVal(104)

\* a wait_for_byte is running, on its own or inside read
InWait == pc \in {"wfb_poll", "wfb_check"}

\* a wait_for_byte has just returned, to the kernel or to read
WaitReturned == (op = "wait_for_byte" /\ pc = "done") \/ pc = "r_waited"

\* C4: wait_for_byte never reads the IO register, so when it returns Ok the
\* byte it waited for is still in the FIFO; a read_byte that is the next call
\* on the handle executes no iteration of its spin loop.
C4_WaitThenReadByte ==
  /\ (InWait \/ WaitReturned) => rxLog = <<>>
  /\ (WaitReturned /\ waitRes = "Ok") => rxFifo # <<>>
  /\ (op = "read_byte" /\ promised = "wait_for_byte") =>
       /\ spins = 0
       /\ pc = "rb_poll" => rxFifo # <<>>
       /\ pc = "done" => (lsrReads = 1 /\ Len(rxLog) = 1)

\* read_byte has returned a byte after wait_for_byte had returned Ok
C4_Witness ==
  /\ op = "read_byte" /\ promised = "wait_for_byte" /\ pc = "done"
  /\ ret.k = "byte"

\* C5: with no timeout set, wait_for_byte never returns the Timeout error,
\* however far the clock has advanced: it stays in its loop as long as its
\* polls read data-ready clear and returns Ok at the first poll that reads
\* it set.
C5_NoTimeoutNoError ==
  (timeout = None /\ op \in {"wait_for_byte", "read"}) =>
    /\ waitRes # "Err"
    /\ ret # Err /\ ret # TimedOut
    /\ InWait => ~Bit0(lastLsr)
    /\ WaitReturned => (waitRes = "Ok" /\ Bit0(lastLsr))

\* with no timeout, a wait that started at time 0 returns Ok when the clock
\* has run to the end of the observed range
C5_Witness ==
  /\ op = "wait_for_byte" /\ pc = "done" /\ timeout = None
  /\ ret = Ok(0)
  /\ start_time = 0 /\ clock = MaxClock

\* the deadline of the running wait in microseconds, from the values the
\* call started with
DeadlineUs == start_time + timeout[1] * 1000

\* C6, as the specification states it: with timeout = T, the wait succeeds
\* if the data-ready flag comes up before T milliseconds have elapsed since
\* the call started, and reports Timeout if it does not come up within T.
C6_TimelyFlagDecides ==
  (WaitReturned /\ timeout # None) =>
    /\ (rxFifo # <<>> /\ readyWhen \in {"entry", "before"}) => waitRes = "Ok"
    /\ (rxFifo = <<>> \/ readyWhen = "after") => waitRes = "Err"

\* C6, amended: with timeout = T, the wait succeeds exactly when one of its
\* polls reads data-ready set, which is certain when the flag is already up
\* as the call starts and impossible when the flag has not come up by the
\* return; it reports Timeout exactly when its last poll read the flag clear
\* and the timer then read more than start + T * 1000 microseconds.
C6_PollsDecide ==
  (WaitReturned /\ timeout # None) =>
    /\ waitRes \in {"Ok", "Err"}
    /\ waitRes = "Ok" <=> Bit0(lastLsr)
    /\ readyWhen = "entry" => waitRes = "Ok"
    /\ rxFifo = <<>> => waitRes = "Err"
    /\ waitRes = "Err" => lastClock > DeadlineUs

\* a wait with a 1 ms timeout returns Ok for a flag that came up during the
\* wait, before the deadline
C6_Witness ==
  /\ WaitReturned /\ timeout = Some(1)
  /\ waitRes = "Ok" /\ readyWhen = "before"

\* C7: wait_for_byte returns the Timeout error only with a timeout T set,
\* only right after a poll that read data-ready clear, and only after a
\* timer reading strictly greater than start + T * 1000 microseconds; a
\* reading equal to that deadline never produces it.
C7_TimeoutStrictlyAfterDeadline ==
  /\ (pc = "done" /\ ret = Err) => (op = "wait_for_byte" /\ waitRes = "Err")
  /\ waitRes = "Err" =>
       /\ timeout # None
       /\ ~Bit0(lastLsr)
       /\ IF timeout = None THEN FALSE ELSE lastClock > DeadlineUs

\* Timeout returned on the first timer value past the deadline of a 1 ms wait
C7_Witness ==
  /\ op = "wait_for_byte" /\ pc = "done" /\ ret = Err
  /\ timeout = Some(1)
  /\ lastClock = start_time + 1001

\* C8: with a timeout set and the timer advancing, every wait_for_byte
\* eventually returns, also when data-ready never comes up; with no timeout
\* set, no step takes the wait out of its loop while the FIFO is empty.
C8_BoundedWait ==
  /\ (InWait /\ timeout # None) ~> ~InWait
  /\ [][(InWait /\ timeout = None /\ rxFifo = <<>>) => InWait']_vars

\* a wait has timed out with the receive FIFO still empty
C8_Witness ==
  /\ op = "wait_for_byte" /\ pc = "done" /\ ret = Err
  /\ rxFifo = <<>> /\ readyWhen = "never"

\* C9: read calls wait_for_byte once and never again; when that wait reports
\* Timeout, read returns an error of kind TimedOut without reading the IO
\* register and with every slot of the caller's buffer as it was.
C9_ReadTimesOut ==
  /\ (op = "read" /\ InWait) => waitRes = "none"
  /\ (pc = "done" /\ ret = TimedOut) => (op = "read" /\ waitRes = "Err")
  /\ (op = "read" /\ waitRes = "Err") =>
       /\ pc \in {"r_waited", "done"}
       /\ rxLog = <<>>
       /\ buf = buf0
       /\ pc = "done" => ret = TimedOut

\* a read into a two-byte buffer has failed with TimedOut
C9_Witness ==
  /\ op = "read" /\ pc = "done" /\ ret = TimedOut
  /\ Len(buf) = 2

\* C10: when its wait succeeds, read returns a count n with
\* 0 <= n <= buf.len(); buf[0..n] holds the low bytes of the n words taken
\* from the IO register, in the order they were taken, every later slot is
\* as the caller passed it, and the drain ends exactly when the buffer is
\* full or a poll reads data-ready clear.
C10_ReadDrains ==
  (op = "read" /\ waitRes = "Ok" /\ pc # "r_waited") =>
    /\ Len(buf) = Len(buf0)
    /\ bytes_read \in 0..Len(buf)
    /\ Len(rxLog) = bytes_read
    /\ \A k \in 1..bytes_read : buf[k] = rxLog[k] % 256
    /\ \A k \in (bytes_read + 1)..Len(buf) : buf[k] = buf0[k]
    /\ pc = "done" =>
         /\ ret = Ok(bytes_read)
         /\ bytes_read = Len(buf) \/ ~Bit0(lastLsr)
         /\ bytes_read < Len(buf) => rxFifo = <<>> \/ readyWhen # "entry"

\* one byte was ready: a read into a two-byte buffer returns 1 and the
\* second slot is untouched
C10_Witness ==
  /\ op = "read" /\ pc = "done" /\ ret = Ok(1)
  /\ Len(buf) = 2 /\ buf[1] = 104 /\ buf[2] = buf0[2]

\* the drain loop of read is running: at its head or inside its read_byte
InDrain == op = "read" /\ pc \in {"r_loop", "rb_poll", "rb_read"}

\* C11: read waits, with the timeout, for the first byte only: once its wait
\* has returned Ok it never waits or fails again; every read_byte of the
\* drain loop starts right after a poll that read data-ready set, finds the
\* byte still there and executes no iteration of its spin loop; and a read
\* that returns with room left in the buffer returns on a poll that read
\* data-ready clear.
C11_DrainNeverBlocks ==
  /\ op = "read" => spins = 0
  /\ InDrain =>
       /\ waitRes = "Ok"
       /\ Bit0(lastLsr)
       /\ pc = "rb_poll" => (rxFifo # <<>> /\ lsrReads = 0)
       /\ pc = "rb_read" => (rxFifo # <<>> /\ lsrReads = 1)
  /\ (op = "read" /\ pc = "done" /\ waitRes = "Ok") =>
       /\ ret.k = "Ok"
       /\ bytes_read < Len(buf) => ~Bit0(lastLsr)

\* with a 0 ms timeout, a read into a two-byte buffer took the one byte that
\* was there and returned on the next poll, which read data-ready clear
C11_Witness ==
  /\ op = "read" /\ pc = "done" /\ timeout = Some(0)
  /\ bytes_read = 1 /\ Len(buf) = 2
  /\ ~Bit0(lastLsr) /\ spins = 0 /\ rxFifo = <<>>

\* C12: write(buf) calls write_byte once per byte of buf, in buffer order
\* and with the byte unchanged (no carriage return is added before a line
\* feed): the bytes written to the IO register are at every moment the
\* bytes of buf handed to write_byte so far, and when the call returns they
\* are all of buf and the result is Ok(buf.len()).  flush returns Ok having
\* read and written no register.
C12_WriteSendsAll ==
  /\ op = "write" =>
       /\ pc = "w_loop" => txLog = SubSeq(buf, 1, i - 1)
       /\ pc \in {"wb_poll", "wb_write"} =>
            (i - 1 \in 1..Len(buf) /\ byte = buf[i - 1]
               /\ txLog = SubSeq(buf, 1, i - 2))
       /\ pc = "done" => (txLog = buf /\ ret = Ok(Len(buf)))
  /\ (op = "flush" /\ pc = "done") =>
       /\ ret.k = "Ok"
       /\ lsrReads = 0 /\ ioWrites = 0 /\ txLog = <<>> /\ rxLog = <<>>

\* write of 'h', '\n' has returned 2 having sent exactly those two bytes
C12_Witness ==
  /\ op = "write" /\ pc = "done"
  /\ buf = <<104, 10>> /\ txLog = <<104, 10>> /\ ret = Ok(2)

\* MiniUart::new is still running
Constructing ==
  pc \in {"new_aux", "new_lcr", "new_baud", "new_gpio14", "new_gpio15",
          "new_cntl"}

\* C13: MiniUart::new performs its hardware steps in this order: enable bit
\* in AUXENB, line-control = 3, baud-divisor = 270, GPIO 14 then GPIO 15 to
\* alternate function 5, and last extended-control = 3.  Each step's effect
\* is present only when every earlier step's effect is, so transmit/receive is
\* never enabled before the peripheral is enabled, the line format and baud
\* rate are set and both pins are multiplexed; once new has returned all
\* of it is in place, and the handle it returns has timeout = None.
C13_InitOrder ==
  /\ registers.LCR \in {0, 3}
  /\ registers.BAUD \in {0, 270}
  /\ registers.CNTL \in {0, 3}
  /\ registers.LCR = 3 => Bit0(AUX_ENABLES)
  /\ registers.BAUD = 270 => registers.LCR = 3
  /\ gpio[14] = "Alt5" => registers.BAUD = 270
  /\ gpio[15] = "Alt5" => gpio[14] = "Alt5"
  /\ registers.CNTL = 3 => gpio[15] = "Alt5"
  /\ Constructing => (registers.CNTL = 0 /\ timeout = <<>>)
  /\ ~Constructing => registers.CNTL = 3
  /\ (op = "new" /\ pc = "done") => timeout = <<>>

\* new has just returned: everything is configured and no timeout is set
C13_Witness ==
  /\ op = "new" /\ pc = "done"
  /\ Bit0(AUX_ENABLES)
  /\ registers = [LCR |-> 3, BAUD |-> 270, CNTL |-> 3]
  /\ gpio[14] = "Alt5" /\ gpio[15] = "Alt5"
  /\ timeout = <<>>

\* bit k of a register value
BitOf(v, k) == (v \div (2 ^ k)) % 2

\* C14: for every power-on value v of the shared AUXENB register, the one
\* step of MiniUart::new that writes it leaves v OR 1 there: bit 0 is set and
\* each of the bits 1..7 is as it was; no other step of new and no operation
\* after construction changes the register, so from that write on bit 0 stays
\* set.
C14_AuxEnableAdditive ==
  /\ [](pc # "new_aux" => BitOf(AUX_ENABLES, 0) = 1)
  /\ [][IF pc = "new_aux" /\ pc' # "new_aux"
        THEN /\ BitOf(AUX_ENABLES', 0) = 1
             /\ \A k \in 1..7 : BitOf(AUX_ENABLES', k) = BitOf(AUX_ENABLES, k)
        ELSE AUX_ENABLES' = AUX_ENABLES]_vars

\* the other peripherals' enable bits (SPI1, SPI2) were set at power-on and
\* are still set, next to the mini UART's, after a read on the handle failed
\* with TimedOut
C14_Witness ==
  /\ AUX_ENABLES = 7
  /\ op = "read" /\ pc = "done" /\ ret = TimedOut

\* C15: the timeout field changes only in set_read_timeout: a step that
\* changes it is the call set_read_timeout(m) made on the free handle, which
\* touches no hardware and returns at once; when that call has returned the
\* field is Some(m), whatever it was before, and the call has read and
\* written no register; every step of every other operation leaves the field
\* as it is, and once it is Some it is never None again.
C15_TimeoutFrame ==
  /\ []((op = "set_read_timeout" /\ pc = "done") =>
          /\ timeout = <<milliseconds>>
          /\ lsrReads = 0 /\ ioWrites = 0 /\ txLog = <<>> /\ rxLog = <<>>)
  /\ [][timeout' # timeout =>
          /\ pc = "idle" /\ pc' = "done" /\ op' = "set_read_timeout"
          /\ UNCHANGED hw]_vars
  /\ [][timeout # <<>> => timeout' # <<>>]_vars

\* set_read_timeout(0) has returned, after the clock had passed 1 ms, and the
\* timeout is Some(0)
C15_Witness ==
  /\ op = "set_read_timeout" /\ pc = "done"
  /\ milliseconds = 0 /\ timeout = <<0>> /\ clock > 1000

\* C16: read_byte ignores the configured timeout: it never reads the timer
\* and has no result but a byte; whatever the timeout and however far the
\* clock has advanced, every poll that kept it in its loop read data-ready
\* clear and it leaves the loop only on a poll that read the flag set; when
\* it returns it has read the IO register exactly once and the result is the
\* low 8 bits of the word read.
C16_ReadByteIgnoresTimeout ==
  op = "read_byte" =>
    /\ lastClock = 0
    /\ pc = "rb_poll" =>
         /\ rxLog = <<>>
         /\ lsrReads = spins
         /\ lsrReads > 0 => ~Bit0(lastLsr)
    /\ pc = "rb_read" =>
         /\ rxLog = <<>>
         /\ lsrReads = spins + 1
         /\ Bit0(lastLsr)
    /\ pc = "done" =>
         /\ Bit0(lastLsr)
         /\ lsrReads = spins + 1
         /\ Len(rxLog) = 1
         /\ ret = [k |-> "byte", v |-> rxLog[1] % 256]
         /\ ret.v \in 0..255

\* with a 0 ms timeout set, read_byte polled data-ready clear, kept going
\* while the clock ran to the end of the observed range, and then returned
\* the low byte 104 of the word 360
C16_Witness ==
  /\ op = "read_byte" /\ pc = "done"
  /\ timeout = <<0>> /\ clock = MaxClock
  /\ spins = 1 /\ rxLog = <<360>> /\ ret = [k |-> "byte", v |-> 104]

\* C17: has_byte returns at once and has no side effect: it reads the
\* line-status register exactly once and returns true exactly when bit 0 of
\* the value read is set, whatever bit 5 is; it reads and writes nothing
\* else, so when it has returned the receive FIFO still holds what it held
\* (the pending byte is not consumed) and line-status still reads the same.
C17_HasByteNoSideEffect ==
  op = "has_byte" =>
    /\ pc \in {"done", "idle"}
    /\ pc = "done" =>
         /\ lsrReads = 1
         /\ lastLsr = LSR
         /\ ret = [k |-> "bool", v |-> lastLsr % 2]
         /\ ret.v = 1 <=> rxFifo # <<>>
         /\ ioWrites = 0 /\ txLog = <<>> /\ rxLog = <<>>

\* has_byte has returned false on a line-status value with bit 5 set and
\* bit 0 clear
C17_Witness ==
  /\ op = "has_byte" /\ pc = "done"
  /\ lastLsr = 32 /\ ret = [k |-> "bool", v |-> 0]

\* a write_byte is running, on its own or inside write_str or write
InWriteByte == pc \in {"wb_poll", "wb_write"}

\* C18: write_byte has no bound on its spins and no error path: while the
\* transmit-space flag is clear no step takes it out of its poll loop, it
\* has written nothing to the IO register as long as it polls, and its only
\* result is (); when the transmitter keeps draining, so that the flag comes
\* up and stays up until the next poll, every write_byte leaves its loop and
\* writes its byte, and a write_byte called by the kernel returns having
\* written exactly that byte.
C18_WriteByteBlocksUntilSpace ==
  /\ [][(pc = "wb_poll" /\ ~txAvail) => pc' = "wb_poll"]_vars
  /\ [](pc = "wb_poll" => ioWrites = 0)
  /\ []((op = "write_byte" /\ pc = "done") => ret = [k |-> "unit", v |-> 0])
  /\ InWriteByte ~> (~InWriteByte /\ ioWrites = 1)
  /\ (op = "write_byte" /\ pc = "wb_poll")
       ~> (op = "write_byte" /\ pc = "done" /\ txLog = <<byte>>)

\* a write_byte that found the transmit FIFO full has spun, and after the
\* drain has written its byte and returned
C18_Witness ==
  /\ op = "write_byte" /\ pc = "done"
  /\ spins = 1 /\ txLog = <<byte>> /\ byte = 104

\* 2^64 - (2^32 - 1) * 1000 as 16-bit limbs, least significant first
Bound64 == <<1000, 0, 64536, 65535>>

\* C19: the deadline of wait_for_byte is start + T * 1000 in 64 bits with T
\* widened before the multiplication: for every 32-bit T the product is the
\* exact one (nothing is carried out of bit 63), and for every start below
\* 2^64 - (2^32 - 1) * 1000 the sum is the exact one too, so there the
\* check does not overflow, the deadline is never before the start, and
\* Timeout is reported exactly for timer values beyond the exact deadline,
\* never for an earlier one.  (Adding the largest product to that bound
\* gives exactly 2^64.)
C19_DeadlineNoWrap ==
  /\ AddC(Widen(Bound64, 5), MulC(<<65535, 65535, 0, 0, 0>>, 1000, 0), 0)
       = <<0, 0, 0, 0, 1>>
  /\ timer64.made =>
       LET start == timer64.start_time
           exactProduct == MulC(Widen(timer64.duration, 5), 1000, 0)
           exactDeadline == AddC(Widen(start, 5), exactProduct, 0)
       IN /\ Widen(timer64.product, 5) = exactProduct
          /\ GtW(Bound64, start) =>
               /\ ~timer64.panicked
               /\ Widen(timer64.deadline, 5) = exactDeadline
               /\ ~GtW(start, timer64.deadline)
               /\ timer64.expired <=> GtW(Widen(timer64.now, 5), exactDeadline)

\* from the last start in the range, 2^64 - (2^32 - 1) * 1000 - 1, the
\* largest timeout gives the deadline 2^64 - 1, and the timer at 2^64 - 1
\* has not passed it
C19_Witness ==
  /\ timer64.made
  /\ timer64.start_time = <<999, 0, 64536, 65535>>
  /\ timer64.duration = <<65535, 65535>>
  /\ timer64.product = <<64536, 65535, 999, 0>>
  /\ timer64.deadline = <<65535, 65535, 65535, 65535>>
  /\ timer64.now = <<65535, 65535, 65535, 65535>>
  /\ ~timer64.expired /\ ~timer64.panicked

\* C20: a read that succeeds on a non-empty buffer returns a count of at
\* least 1, so Ok(0) is returned only for an empty buffer; a read on an
\* empty buffer makes the timeout-bounded wait first like any other, fails
\* with TimedOut when the wait does, and when the wait succeeds returns 0
\* without reading the IO register, the byte it waited for still pending.
C20_ReadCountAtLeastOne ==
  /\ (op = "read" /\ Len(buf) = 0) => rxLog = <<>>
  /\ (op = "read" /\ pc = "done") =>
       /\ waitRes \in {"Ok", "Err"}
       /\ ret.k = (IF waitRes = "Ok" THEN "Ok" ELSE "TimedOut")
       /\ (ret.k = "Ok" /\ Len(buf) > 0) => ret.v >= 1
       /\ (ret.k = "Ok" /\ ret.v = 0) => Len(buf) = 0
       /\ (ret.k = "Ok" /\ Len(buf) = 0) => (ret.v = 0 /\ rxFifo # <<>>)

\* a read on an empty buffer, with a 1 ms timeout, waited until a byte came
\* in and returned 0, the byte still in the FIFO
C20_Witness ==
  /\ op = "read" /\ pc = "done" /\ timeout = <<1>>
  /\ buf = <<>> /\ ret = [k |-> "Ok", v |-> 0]
  /\ readyWhen = "before" /\ rxFifo # <<>> /\ rxLog = <<>>

====
